---- MODULE Spec2Model ----
(***************************************************************************)
(* Model of src/src/common/VirtualTerminal.cpp (SDDM::VirtualTerminal):    *)
(* fetchAvailableVt, setUpNewVt, jumpToVt, fixVtMode, handleVtSwitches and *)
(* the two signal handlers onReleaseDisplay / onAcquireDisplay, run        *)
(* against a kernel VT subsystem whose calls may fail one by one.          *)
(*                                                                         *)
(* One step of the model is one system call (open, ioctl, write, close,    *)
(* signal) or one read or write of errno by the main flow.  The signal     *)
(* handlers run on the main thread's stack: while a handler frame exists   *)
(* the main flow does not advance.                                         *)
(*                                                                         *)
(* A behaviour is one call of one of the three public functions, started   *)
(* in any state earlier calls can have left behind: any mode of every VT,  *)
(* and the two signal handlers either never registered or both registered. *)
(***************************************************************************)
EXTENDS Integers, Sequences, FiniteSets, TLC

\* ------------------------------------------------------------------ bounds
NumVt == 2          \* virtual terminals 1..NumVt
MaxIntr == 2        \* EINTR results the kernel gives one jumpToVt call
MaxSignals == 1     \* signals delivered to the process in one behaviour
MaxOpen == 4        \* size of the descriptor table
MaxCalls == 2       \* calls of fixVtMode made in succession (SpecRepair)

\* ------------------------------------------------- constants of the program
SIGRTMAX == 64
RELEASE_DISPLAY_SIGNAL == SIGRTMAX
ACQUIRE_DISPLAY_SIGNAL == SIGRTMAX - 1
VT_AUTO == 0
VT_PROCESS == 1
VT_ACKACQ == 2
KD_TEXT == 0
KD_GRAPHICS == 1
\* errno: 0 is "no error"; the code tells EINTR from every other value, and
\* EOTHER stands for all of those (EBADF, EIO, EINVAL, ...)
EINTR == 4
EOTHER == EINTR + 1
\* the first descriptor open() can return: 0, 1 and 2 are the standard streams
FirstFd == 3

Vts == 1..NumVt
Fds == FirstFd..(FirstFd + MaxOpen - 1)
Signals == {RELEASE_DISPLAY_SIGNAL, ACQUIRE_DISPLAY_SIGNAL}
\* an id the allocation call may yield: -1 or 0 (none available) or a VT
AllocIds == (-1)..NumVt
\* device number of the master device /dev/tty0; /dev/ttyN is N
TTY0 == 0

VARIABLES
    \* kernel
    active,         \* the foreground VT (v_active)
    vtmode,         \* VT -> VT_AUTO | VT_PROCESS
    vtsig,          \* VT -> <<relsig, acqsig>> of its vt_mode (<<0, 0>>: not ours)
    kdmode,         \* VT -> KD_TEXT | KD_GRAPHICS
    fdtab,          \* descriptor -> [vt, owner], owner "none" when not open
    \* process-wide
    sigh,           \* signal -> "SIG_DFL" | "onReleaseDisplay" | "onAcquireDisplay"
    errno,
    hstack,         \* frames of the running signal handlers, innermost last
    nsig,           \* signals delivered so far
    \* main flow
    pc, op,
    vt, vt_auto,                \* arguments of jumpToVt / fixVtMode
    activeVtFd, vtFd, fd,       \* locals of jumpToVt (fd: also of the others)
    fixfd, getmodeReply, kernelDisplayMode, modeFixed, ok,  \* fixVtMode
    hvsfd, hvsok, hvsCaller,    \* handleVtSwitches
    retval,                     \* value returned by the operation
    ncall,                      \* calls of fixVtMode made so far (SpecRepair)
    \* what the main flow did in the current operation
    trace,          \* fetchAvailableVt, setUpNewVt, lone fixVtMode: every call
                    \* and message in order, with its result
    calls,          \* jumpToVt: the calls and messages issued, as a set of
                    \* [c, fd, a], without their results
    lastSw,         \* jumpToVt: the last VT_ACTIVATE / VT_WAITACTIVE call and
                    \* the errno it ended with
    nintr,          \* jumpToVt: EINTR results so far
    dblClose        \* a close hit a descriptor that was not open

kvars == <<active, vtmode, vtsig, kdmode, fdtab>>
pvars == <<sigh, errno, hstack, nsig>>
jvars == <<vt, vt_auto, activeVtFd, vtFd, fd>>
fvars == <<fixfd, getmodeReply, kernelDisplayMode, modeFixed, ok>>
hvars == <<hvsfd, hvsok, hvsCaller>>
cvars == <<pc, op, retval, ncall>>
rvars == <<trace, calls, lastSw, nintr, dblClose>>
vars == <<kvars, pvars, jvars, fvars, hvars, cvars, rvars>>

NoFile == [vt |-> 0, owner |-> "none"]
NoSw == [c |-> "none", fd |-> -1, a |-> 0, e |-> 0]

\* ---------------------------------------------------------- kernel interface
IsOpen(f) == f \in Fds /\ fdtab[f].owner # "none"
FreeFds == {f \in Fds : fdtab[f].owner = "none"}
LowestFree == CHOOSE f \in FreeFds : \A g \in FreeFds : f <= g
\* the VT a device denotes when it is opened: /dev/tty0 is the foreground VT
DevVt(dev) == IF dev = TTY0 THEN active ELSE dev
VtOf(f) == fdtab[f].vt

\* errno values a call on descriptor f may end with (0: success); a call on
\* a descriptor that is not open always fails (EBADF)
IoctlOutcomes(f) == IF IsOpen(f) THEN {0, EOTHER} ELSE {EOTHER}
BlockingOutcomes(f) ==
    IF IsOpen(f)
    THEN {0, EOTHER} \cup (IF nintr < MaxIntr THEN {EINTR} ELSE {})
    ELSE {EOTHER}
OpenOutcomes == (IF FreeFds # {} THEN {0} ELSE {}) \cup {EOTHER}

\* errno after a call that ended with e: a successful call leaves it alone
ErrnoAfter(e) == IF e = 0 THEN errno ELSE e

\* open(dev) by `owner`, ending with e; the descriptor it returns
OpenResult(e) == IF e = 0 THEN LowestFree ELSE -1
FdtabAfterOpen(dev, owner, e) ==
    IF e = 0 THEN [fdtab EXCEPT ![LowestFree] = [vt |-> DevVt(dev), owner |-> owner]]
    ELSE fdtab
FdtabAfterClose(f) == IF IsOpen(f) THEN [fdtab EXCEPT ![f] = NoFile] ELSE fdtab
CloseErrno(f) == IF IsOpen(f) THEN 0 ELSE EOTHER

\* ------------------------------------------------- record of the main flow
Entry(c, f, a, e) == [c |-> c, fd |-> f, a |-> a, e |-> e]
Log(msg) == Entry(msg, -1, 0, 0)
Call3(en) == [c |-> en.c, fd |-> en.fd, a |-> en.a]
InJump == op = "jumpToVt"

\* the main flow made the calls `ens` (a sequence of entries), in this order
Record(ens) ==
    /\ trace' = IF InJump THEN trace ELSE trace \o ens
    /\ calls' = IF InJump THEN calls \cup {Call3(ens[i]) : i \in 1..Len(ens)}
                ELSE calls
NoRecord == UNCHANGED <<trace, calls>>

\* ------------------------------------------------------------------- Init
TypeOK ==
    /\ active \in Vts
    /\ vtmode \in [Vts -> {VT_AUTO, VT_PROCESS}]
    /\ kdmode \in [Vts -> {KD_TEXT, KD_GRAPHICS}]
    /\ errno \in {0, EINTR, EOTHER}
    /\ nsig \in 0..MaxSignals
    /\ Len(hstack) <= 2

Registered ==
    [s \in Signals |-> IF s = RELEASE_DISPLAY_SIGNAL THEN "onReleaseDisplay"
                       ELSE "onAcquireDisplay"]
OurSignals == <<RELEASE_DISPLAY_SIGNAL, ACQUIRE_DISPLAY_SIGNAL>>

\* Either no handshake was ever installed, or an earlier jumpToVt installed
\* one: then both handlers are registered, and a VT in PROCESS mode may be one
\* that call put there.
KernelInit ==
    /\ active \in Vts
    /\ vtmode \in [Vts -> {VT_AUTO, VT_PROCESS}]
    /\ kdmode \in [Vts -> {KD_TEXT, KD_GRAPHICS}]
    /\ \/ /\ sigh = [s \in Signals |-> "SIG_DFL"]
          /\ vtsig = [v \in Vts |-> <<0, 0>>]
       \/ /\ sigh = Registered
          /\ vtsig \in [Vts -> {<<0, 0>>, OurSignals}]
          /\ \A v \in Vts : vtsig[v] = OurSignals => vtmode[v] = VT_PROCESS

ProcessInit ==
    /\ errno = 0
    /\ hstack = <<>>
    /\ nsig = 0

LocalsInit ==
    /\ vt = 0 /\ vt_auto = FALSE
    /\ activeVtFd = -1 /\ vtFd = -1 /\ fd = -1
    /\ fixfd = -1 /\ getmodeReply = 0 /\ kernelDisplayMode = 0
    /\ modeFixed = FALSE /\ ok = TRUE
    /\ hvsfd = -1 /\ hvsok = TRUE /\ hvsCaller = "none"
    /\ retval = 0 /\ ncall = 0
    /\ trace = <<>> /\ calls = {} /\ lastSw = NoSw /\ nintr = 0
    /\ dblClose = FALSE

Init ==
    /\ KernelInit
    /\ fdtab = [f \in Fds |-> NoFile]
    /\ ProcessInit
    /\ LocalsInit
    /\ pc = "idle" /\ op = "none"

\* the locals of fixVtMode and of handleVtSwitches once they have returned
NoFix ==
    /\ fixfd' = -1 /\ getmodeReply' = 0 /\ kernelDisplayMode' = 0
    /\ modeFixed' = FALSE /\ ok' = TRUE
NoHvs == hvsfd' = -1 /\ hvsok' = TRUE /\ hvsCaller' = "none"

\* the main flow runs only while no signal handler is on its stack
MainRuns == hstack = <<>>
\* no operation was called yet
Idle == pc = "idle" /\ op = "none"
Returned == pc = "idle" /\ op # "none"

\* --------------------------------------------------------- fetchAvailableVt
CallFetchAvailableVt ==
    /\ MainRuns /\ Idle
    /\ pc' = "f_open" /\ op' = "fetchAvailableVt"
    /\ UNCHANGED <<kvars, pvars, jvars, fvars, hvars, retval, ncall, rvars>>

\* the test of line 131 turned round: the allocation follows a query that worked
QuerySucceeded(e) == e = 0

\* line 131: the active-VT query failed
QueryFailed(e) == e # 0

\* lines 121-125
FetchOpen ==
    /\ MainRuns /\ pc = "f_open"
    /\ \E e \in OpenOutcomes :
        /\ fd' = OpenResult(e)
        /\ fdtab' = FdtabAfterOpen(TTY0, "main", e)
        /\ errno' = ErrnoAfter(e)
        /\ Record(<<Entry("open", OpenResult(e), TTY0, e)>>)
        /\ IF e # 0 THEN pc' = "idle" /\ retval' = -1
                    ELSE pc' = "f_getstate" /\ retval' = retval
    /\ UNCHANGED <<active, vtmode, vtsig, kdmode, sigh, hstack, nsig, vt, vt_auto,
                   activeVtFd, vtFd, fvars, hvars, op, ncall, lastSw, nintr, dblClose>>

\* lines 130-131, 142
FetchGetState ==
    /\ MainRuns /\ pc = "f_getstate"
    /\ \E e \in IoctlOutcomes(fd) :
        /\ errno' = ErrnoAfter(e)
        /\ Record(<<Entry("VT_GETSTATE", fd, IF e = 0 THEN active ELSE 0, e)>>)
        /\ IF QueryFailed(e) THEN pc' = "f_openqry" /\ retval' = retval
                             ELSE pc' = "f_close" /\ retval' = active
    /\ UNCHANGED <<kvars, sigh, hstack, nsig, jvars, fvars, hvars, op, ncall,
                   lastSw, nintr, dblClose>>

\* lines 134-140
FetchOpenQry ==
    /\ MainRuns /\ pc = "f_openqry"
    /\ \E e \in IoctlOutcomes(fd) : \E id \in AllocIds :
        /\ errno' = ErrnoAfter(e)
        /\ Record(<<Entry("VT_OPENQRY", fd, IF e = 0 THEN id ELSE 0, e)>>)
        /\ retval' = IF e = 0 THEN id ELSE -1
        /\ pc' = "f_close"
    /\ UNCHANGED <<kvars, sigh, hstack, nsig, jvars, fvars, hvars, op, ncall,
                   lastSw, nintr, dblClose>>

\* the scope guard of lines 126-128 / 152-154, run when the function returns
GuardClose ==
    /\ MainRuns /\ pc \in {"f_close", "s_close"}
    /\ fdtab' = FdtabAfterClose(fd)
    /\ errno' = ErrnoAfter(CloseErrno(fd))
    /\ dblClose' = (dblClose \/ (fd >= 0 /\ ~IsOpen(fd)))
    /\ Record(<<Entry("close", fd, 0, CloseErrno(fd))>>)
    /\ pc' = "idle"
    /\ UNCHANGED <<active, vtmode, vtsig, kdmode, sigh, hstack, nsig, jvars, fvars,
                   hvars, op, retval, ncall, lastSw, nintr>>

\* --------------------------------------------------------------- setUpNewVt
CallSetUpNewVt ==
    /\ MainRuns /\ Idle
    /\ pc' = "s_open" /\ op' = "setUpNewVt"
    /\ UNCHANGED <<kvars, pvars, jvars, fvars, hvars, retval, ncall, rvars>>

\* the test of line 163 without its zero: only a negative id is taken for invalid
AllocNegative(id) == id < 0

\* line 163: the allocated id is not valid
AllocInvalid(id) == id <= 0

\* lines 147-151
SetUpOpen ==
    /\ MainRuns /\ pc = "s_open"
    /\ \E e \in OpenOutcomes :
        /\ fd' = OpenResult(e)
        /\ fdtab' = FdtabAfterOpen(TTY0, "main", e)
        /\ errno' = ErrnoAfter(e)
        /\ Record(<<Entry("open", OpenResult(e), TTY0, e)>>)
        /\ IF e # 0 THEN pc' = "idle" /\ retval' = -1
                    ELSE pc' = "s_openqry" /\ retval' = retval
    /\ UNCHANGED <<active, vtmode, vtsig, kdmode, sigh, hstack, nsig, vt, vt_auto,
                   activeVtFd, vtFd, fvars, hvars, op, ncall, lastSw, nintr, dblClose>>

\* lines 156-163, 174
SetUpOpenQry ==
    /\ MainRuns /\ pc = "s_openqry"
    /\ \E e \in IoctlOutcomes(fd) : \E id \in AllocIds :
        /\ errno' = ErrnoAfter(e)
        /\ Record(<<Entry("VT_OPENQRY", fd, IF e = 0 THEN id ELSE 0, e)>>)
        /\ IF e # 0 THEN pc' = "s_close" /\ retval' = -1
           ELSE IF AllocInvalid(id) THEN pc' = "s_getstate" /\ retval' = retval
           ELSE pc' = "s_close" /\ retval' = id
    /\ UNCHANGED <<kvars, sigh, hstack, nsig, jvars, fvars, hvars, op, ncall,
                   lastSw, nintr, dblClose>>

\* lines 164-171
SetUpGetState ==
    /\ MainRuns /\ pc = "s_getstate"
    /\ \E e \in IoctlOutcomes(fd) :
        /\ errno' = ErrnoAfter(e)
        /\ Record(<<Entry("VT_GETSTATE", fd, IF e = 0 THEN active ELSE 0, e)>>
                  \o (IF e = 0 THEN <<Log("New VT is not valid, fall back")>>
                      ELSE <<>>))
        /\ retval' = IF e = 0 THEN active ELSE -1
        /\ pc' = "s_close"
    /\ UNCHANGED <<kvars, sigh, hstack, nsig, jvars, fvars, hvars, op, ncall,
                   lastSw, nintr, dblClose>>

\* --------------------------------------------------------- handleVtSwitches
\* the call handleVtSwitches(f): lines 52-54
EnterHvs(f, caller) ==
    /\ hvsfd' = f /\ hvsCaller' = caller /\ hvsok' = TRUE
    /\ pc' = "hvs_setmode"

\* lines 53-58: the vt_mode handed to VT_SETMODE
SetModeRequest ==
    [mode |-> VT_PROCESS, relsig |-> RELEASE_DISPLAY_SIGNAL,
     acqsig |-> ACQUIRE_DISPLAY_SIGNAL]

\* lines 60-63: ioctl(fd, VT_SETMODE, &setModeRequest)
HvsSetMode ==
    /\ MainRuns /\ pc = "hvs_setmode"
    /\ \E e \in IoctlOutcomes(hvsfd) :
        LET req == SetModeRequest IN
        /\ errno' = ErrnoAfter(e)
        /\ vtmode' = IF e = 0 THEN [vtmode EXCEPT ![VtOf(hvsfd)] = req.mode] ELSE vtmode
        /\ vtsig' = IF e = 0 THEN [vtsig EXCEPT ![VtOf(hvsfd)] = <<req.relsig, req.acqsig>>]
                    ELSE vtsig
        /\ hvsok' = (e = 0)
        /\ Record(<<Entry("VT_SETMODE", hvsfd, req.mode, e)>>
                  \o (IF e # 0 THEN <<Log("Failed to manage VT manually")>> ELSE <<>>))
    /\ pc' = "hvs_sigrel"
    /\ UNCHANGED <<active, kdmode, fdtab, sigh, hstack, nsig, jvars, fvars,
                   hvsfd, hvsCaller, op, retval, ncall, lastSw, nintr, dblClose>>

\* the handlers lines 65 and 66 register
ReleaseHandler == "onReleaseDisplay"
AcquireHandler == "onAcquireDisplay"

\* line 65: signal(RELEASE_DISPLAY_SIGNAL, onReleaseDisplay)
HvsSignalRelease ==
    /\ MainRuns /\ pc = "hvs_sigrel"
    /\ sigh' = [sigh EXCEPT ![RELEASE_DISPLAY_SIGNAL] = ReleaseHandler]
    /\ Record(<<Entry("signal", -1, RELEASE_DISPLAY_SIGNAL, 0)>>)
    /\ pc' = "hvs_sigacq"
    /\ UNCHANGED <<kvars, errno, hstack, nsig, jvars, fvars, hvars,
                   op, retval, ncall, lastSw, nintr, dblClose>>

\* lines 66-68: signal(ACQUIRE_DISPLAY_SIGNAL, onAcquireDisplay); return ok.
\* Back in fixVtMode, lines 104-105; back in jumpToVt, line 214.
HvsSignalAcquire ==
    /\ MainRuns /\ pc = "hvs_sigacq"
    /\ sigh' = [sigh EXCEPT ![ACQUIRE_DISPLAY_SIGNAL] = AcquireHandler]
    /\ Record(<<Entry("signal", -1, ACQUIRE_DISPLAY_SIGNAL, 0)>>)
    /\ IF hvsCaller = "fixVtMode"
       THEN /\ ok' = hvsok /\ modeFixed' = TRUE /\ pc' = "fix_out"
       ELSE /\ UNCHANGED <<ok, modeFixed>> /\ pc' = "j_errno"
    /\ NoHvs
    /\ UNCHANGED <<kvars, errno, hstack, nsig, jvars, fixfd, getmodeReply,
                   kernelDisplayMode, op, retval, ncall, lastSw, nintr, dblClose>>

\* ---------------------------------------------------------------- fixVtMode
\* the call fixVtMode(f, vt_auto): lines 71-75
EnterFix(f) ==
    /\ fixfd' = f /\ getmodeReply' = 0 /\ kernelDisplayMode' = 0
    /\ modeFixed' = FALSE /\ ok' = TRUE
    /\ pc' = "fix_getmode"
FixCall(f) == Entry("fixVtMode", f, IF vt_auto THEN 1 ELSE 0, 0)

\* line 82: the VT mode needs no fix
ModeNeedsNoFix(mode) == mode # VT_AUTO
\* line 90: the display mode needs no fix
DisplayNeedsNoFix(kd) == kd = KD_TEXT
\* the test of line 94 turned round
PriorOwnerPresent == ~vt_auto

\* line 94: the controlling process is already gone
PriorOwnerGone == vt_auto

\* lines 77-83
FixGetMode ==
    /\ MainRuns /\ pc = "fix_getmode"
    /\ \E e \in IoctlOutcomes(fixfd) :
        LET reply == IF e = 0 THEN vtmode[VtOf(fixfd)] ELSE getmodeReply IN
        /\ errno' = ErrnoAfter(e)
        /\ getmodeReply' = reply
        /\ ok' = (ok /\ e = 0)
        /\ Record(<<Entry("VT_GETMODE", fixfd, reply, e)>>
                  \o (IF e # 0 THEN <<Log("Failed to query VT mode")>> ELSE <<>>))
        /\ pc' = IF ModeNeedsNoFix(reply) THEN "fix_out" ELSE "fix_kdget"
    /\ UNCHANGED <<kvars, sigh, hstack, nsig, jvars, fixfd, kernelDisplayMode,
                   modeFixed, hvars, op, retval, ncall, lastSw, nintr, dblClose>>

\* lines 85-94 and, for the else branch, the call of line 104
FixKdGetMode ==
    /\ MainRuns /\ pc = "fix_kdget"
    /\ \E e \in IoctlOutcomes(fixfd) :
        LET reply == IF e = 0 THEN kdmode[VtOf(fixfd)] ELSE kernelDisplayMode IN
        /\ errno' = ErrnoAfter(e)
        /\ kernelDisplayMode' = reply
        /\ ok' = (ok /\ e = 0)
        /\ Record(<<Entry("KDGETMODE", fixfd, reply, e)>>
                  \o (IF e # 0 THEN <<Log("Failed to query kernel display mode")>>
                      ELSE <<>>))
        /\ IF DisplayNeedsNoFix(reply)
           THEN pc' = "fix_out" /\ UNCHANGED hvars
           ELSE IF PriorOwnerGone
           THEN pc' = "fix_kdset" /\ UNCHANGED hvars
           ELSE EnterHvs(fixfd, "fixVtMode")
    /\ UNCHANGED <<kvars, sigh, hstack, nsig, jvars, fixfd, getmodeReply,
                   modeFixed, op, retval, ncall, lastSw, nintr, dblClose>>

\* the display mode line 98 asks for
RepairDisplayMode == KD_TEXT

\* lines 98-101
FixKdSetMode ==
    /\ MainRuns /\ pc = "fix_kdset"
    /\ \E e \in IoctlOutcomes(fixfd) :
        /\ errno' = ErrnoAfter(e)
        /\ kdmode' = IF e = 0 THEN [kdmode EXCEPT ![VtOf(fixfd)] = RepairDisplayMode]
                     ELSE kdmode
        /\ ok' = (ok /\ e = 0)
        /\ Record(<<Entry("KDSETMODE", fixfd, RepairDisplayMode, e)>>
                  \o (IF e # 0 THEN <<Log("Failed to set text mode for current VT")>>
                      ELSE <<>>))
    /\ pc' = "fix_out"
    /\ UNCHANGED <<active, vtmode, vtsig, fdtab, sigh, hstack, nsig, jvars,
                   fixfd, getmodeReply, kernelDisplayMode, modeFixed, hvars, op,
                   retval, ncall, lastSw, nintr, dblClose>>

\* lines 107-116: what fixVtMode reports
FixReport ==
    IF ~ok THEN "Failed to set up VT mode"
    ELSE IF modeFixed THEN "VT mode fixed"
    ELSE "VT mode didn't need to be fixed"

\* lines 107-117, and the return: to jumpToVt at line 208, or to the caller
\* of a lone fixVtMode
FixOut ==
    /\ MainRuns /\ pc = "fix_out"
    /\ Record(<<Log(FixReport)>>)
    /\ NoFix
    /\ pc' = IF InJump THEN "j_handshake" ELSE "r_ret"
    /\ UNCHANGED <<kvars, pvars, jvars, hvars, op, retval, ncall, lastSw, nintr,
                   dblClose>>

\* ----------------------------------------------------------------- jumpToVt
CallJumpToVt ==
    /\ MainRuns /\ Idle
    /\ \E t \in Vts, a \in BOOLEAN : vt' = t /\ vt_auto' = a
    /\ pc' = "j_open_master" /\ op' = "jumpToVt"
    /\ UNCHANGED <<kvars, pvars, activeVtFd, vtFd, fd, fvars, hvars, retval, ncall,
                   rvars>>

\* line 182
JumpOpenMaster ==
    /\ MainRuns /\ pc = "j_open_master"
    /\ \E e \in OpenOutcomes :
        /\ activeVtFd' = OpenResult(e)
        /\ fdtab' = FdtabAfterOpen(TTY0, "main", e)
        /\ errno' = ErrnoAfter(e)
        /\ Record(<<Entry("open", OpenResult(e), TTY0, e)>>)
    /\ pc' = "j_open_target"
    /\ UNCHANGED <<active, vtmode, vtsig, kdmode, sigh, hstack, nsig, vt,
                   vt_auto, vtFd, fd, fvars, hvars, op, retval, ncall, lastSw,
                   nintr, dblClose>>

\* a jumpToVt that gives up when the target device cannot be opened
TargetFailedAbort == "j_close_master"

\* where jumpToVt goes on when the target device cannot be opened: line 208
TargetFailedPc == "j_handshake"

\* a fallback that keeps the handle of the target
FallbackToTarget == vtFd

\* line 205: the handle used when the target device cannot be opened
FallbackFd == activeVtFd

\* lines 184-187 and 202-206
JumpOpenTarget ==
    /\ MainRuns /\ pc = "j_open_target"
    /\ \E e \in OpenOutcomes :
        /\ vtFd' = OpenResult(e)
        /\ fdtab' = FdtabAfterOpen(vt, "main", e)
        /\ errno' = ErrnoAfter(e)
        /\ IF e = 0
           THEN /\ fd' = OpenResult(e)
                /\ Record(<<Entry("open", OpenResult(e), vt, e)>>)
                /\ pc' = "j_write"
           ELSE /\ fd' = FallbackFd
                /\ Record(<<Entry("open", -1, vt, e), Log("Using /dev/tty0 instead")>>)
                /\ pc' = TargetFailedPc
    /\ UNCHANGED <<active, vtmode, vtsig, kdmode, sigh, hstack, nsig, vt,
                   vt_auto, activeVtFd, fvars, hvars, op, retval, ncall, lastSw,
                   nintr, dblClose>>

\* lines 190-191: write(vtFd, clearEscapeSequence, ...)
JumpClear ==
    /\ MainRuns /\ pc = "j_write"
    /\ \E e \in IoctlOutcomes(vtFd) :
        /\ errno' = ErrnoAfter(e)
        /\ Record(<<Entry("write", vtFd, 0, e)>>)
    /\ pc' = "j_kdset"
    /\ UNCHANGED <<kvars, sigh, hstack, nsig, jvars, fvars, hvars, op,
                   retval, ncall, lastSw, nintr, dblClose>>

\* lines 194-201: ioctl(fd, KDSETMODE, KD_GRAPHICS), then the call of fixVtMode
JumpSetGraphics ==
    /\ MainRuns /\ pc = "j_kdset"
    /\ \E e \in IoctlOutcomes(fd) :
        /\ errno' = ErrnoAfter(e)
        /\ kdmode' = IF e = 0 THEN [kdmode EXCEPT ![VtOf(fd)] = KD_GRAPHICS] ELSE kdmode
        /\ Record(<<Entry("KDSETMODE", fd, KD_GRAPHICS, e)>>
                  \o (IF e # 0 THEN <<Log("Failed to set graphics mode")>> ELSE <<>>)
                  \o <<FixCall(activeVtFd)>>)
    /\ EnterFix(activeVtFd)
    /\ UNCHANGED <<active, vtmode, vtsig, fdtab, sigh, hstack, nsig, jvars,
                   hvars, op, retval, ncall, lastSw, nintr, dblClose>>

\* a jumpToVt without the test of line 211
HandshakeAlways == TRUE

\* the test of line 211 turned round
HandshakeWhenGone == vt_auto

\* line 211: the handshake is installed unless the prior owner is gone
NeedsHandshake == ~vt_auto

\* lines 211-212
JumpHandshake ==
    /\ MainRuns /\ pc = "j_handshake"
    /\ IF NeedsHandshake THEN EnterHvs(fd, "jumpToVt")
                         ELSE pc' = "j_errno" /\ UNCHANGED hvars
    /\ UNCHANGED <<kvars, pvars, jvars, fvars, op, retval, ncall, rvars>>

\* line 215: errno = 0
JumpClearErrno ==
    /\ MainRuns /\ pc = "j_errno"
    /\ errno' = 0
    /\ pc' = "j_activate"
    /\ UNCHANGED <<kvars, sigh, hstack, nsig, jvars, fvars, hvars, op,
                   retval, ncall, rvars>>

\* line 217: ioctl(fd, VT_ACTIVATE, vt)
JumpActivate ==
    /\ MainRuns /\ pc = "j_activate"
    /\ \E e \in BlockingOutcomes(fd) :
        /\ errno' = ErrnoAfter(e)
        /\ Record(<<Entry("VT_ACTIVATE", fd, vt, e)>>)
        /\ lastSw' = Entry("VT_ACTIVATE", fd, vt, e)
        /\ nintr' = IF e = EINTR THEN nintr + 1 ELSE nintr
        /\ pc' = IF e # 0 THEN "j_act_chk" ELSE "j_wait"
    /\ UNCHANGED <<kvars, sigh, hstack, nsig, jvars, fvars, hvars, op,
                   retval, ncall, dblClose>>

\* line 218: the failed call is one to try again
Interrupted == errno = EINTR

\* a loop that starts over after a failed activate
ActivateFailedRetries == "j_errno"

\* a loop that goes on to the wait after a failed activate
ActivateFailedFallsThrough == "j_wait"

\* line 222: break, out of the loop to line 229
AfterActivateFailed == "j_close_master"

\* lines 218-222: the activate call failed; errno decides
JumpActivateFailed ==
    /\ MainRuns /\ pc = "j_act_chk"
    /\ IF Interrupted
       THEN pc' = "j_while" /\ NoRecord
       ELSE pc' = AfterActivateFailed /\ Record(<<Log("Couldn't initiate jump")>>)
    /\ UNCHANGED <<kvars, pvars, jvars, fvars, hvars, op, retval, ncall, lastSw,
                   nintr, dblClose>>

\* line 225, the call: ioctl(fd, VT_WAITACTIVE, vt); it ends with success only
\* once vt is the foreground VT
JumpWaitActive ==
    /\ MainRuns /\ pc = "j_wait"
    /\ \E e \in BlockingOutcomes(fd) :
        /\ errno' = ErrnoAfter(e)
        /\ active' = IF e = 0 THEN vt ELSE active
        /\ Record(<<Entry("VT_WAITACTIVE", fd, vt, e)>>)
        /\ lastSw' = Entry("VT_WAITACTIVE", fd, vt, e)
        /\ nintr' = IF e = EINTR THEN nintr + 1 ELSE nintr
        /\ pc' = IF e # 0 THEN "j_wait_chk" ELSE "j_while"
    /\ UNCHANGED <<vtmode, vtsig, kdmode, fdtab, sigh, hstack, nsig, jvars,
                   fvars, hvars, op, retval, ncall, dblClose>>

\* line 225, the test: the failed wait is reported unless errno is EINTR
WaitReported == errno # EINTR

\* lines 225-226: the wait call failed; errno decides whether it is reported
JumpWaitFailed ==
    /\ MainRuns /\ pc = "j_wait_chk"
    /\ IF WaitReported THEN Record(<<Log("Couldn't finalize jump")>>) ELSE NoRecord
    /\ pc' = "j_while"
    /\ UNCHANGED <<kvars, pvars, jvars, fvars, hvars, op, retval, ncall, lastSw,
                   nintr, dblClose>>

\* line 228: the loop goes on while errno is EINTR
LoopAgain == errno = EINTR

JumpWhile ==
    /\ MainRuns /\ pc = "j_while"
    /\ pc' = IF LoopAgain THEN "j_errno" ELSE "j_close_master"
    /\ UNCHANGED <<kvars, pvars, jvars, fvars, hvars, op, retval, ncall, rvars>>

\* a jumpToVt without lines 230-231
NoTargetClose == "idle"

\* lines 230-231: the target handle is closed when it was opened
AfterCloseMaster == IF vtFd # -1 THEN "j_close_target" ELSE "idle"

\* line 229
JumpCloseMaster ==
    /\ MainRuns /\ pc = "j_close_master"
    /\ fdtab' = FdtabAfterClose(activeVtFd)
    /\ errno' = ErrnoAfter(CloseErrno(activeVtFd))
    /\ dblClose' = (dblClose \/ (activeVtFd >= 0 /\ ~IsOpen(activeVtFd)))
    /\ Record(<<Entry("close", activeVtFd, 0, CloseErrno(activeVtFd))>>)
    /\ pc' = AfterCloseMaster
    /\ UNCHANGED <<active, vtmode, vtsig, kdmode, sigh, hstack, nsig, jvars,
                   fvars, hvars, op, retval, ncall, lastSw, nintr>>

\* line 231
JumpCloseTarget ==
    /\ MainRuns /\ pc = "j_close_target"
    /\ fdtab' = FdtabAfterClose(vtFd)
    /\ errno' = ErrnoAfter(CloseErrno(vtFd))
    /\ dblClose' = (dblClose \/ (vtFd >= 0 /\ ~IsOpen(vtFd)))
    /\ Record(<<Entry("close", vtFd, 0, CloseErrno(vtFd))>>)
    /\ pc' = "idle"
    /\ UNCHANGED <<active, vtmode, vtsig, kdmode, sigh, hstack, nsig, jvars,
                   fvars, hvars, op, retval, ncall, lastSw, nintr>>

\* ----------------------------------------------------------- signal handlers
Top == hstack[Len(hstack)]
SetTop(fr) == [hstack EXCEPT ![Len(hstack)] = fr]
Pop == SubSeq(hstack, 1, Len(hstack) - 1)
Running(sig) == \E i \in 1..Len(hstack) : hstack[i].sig = sig

\* VT v is in PROCESS mode with this process's two signals (the vt_mode that
\* line 60 installs)
Armed(v) == vtmode[v] = VT_PROCESS /\ vtsig[v] = OurSignals
\* the kernel raises the release signal when a switch away from the foreground
\* VT is requested, and the acquire signal when a VT is switched to
Raised(sig) ==
    IF sig = RELEASE_DISPLAY_SIGNAL THEN Armed(active) ELSE \E v \in Vts : Armed(v)

\* The kernel delivers `sig` while an operation is under way, and the handler
\* registered for it runs up to the return of its open("/dev/tty0"), lines 41
\* and 47.  A signal is blocked while its own handler runs; the other one may
\* interrupt it.
Deliver(sig) ==
    /\ pc # "idle"
    /\ Raised(sig)
    /\ sigh[sig] # "SIG_DFL"
    /\ ~Running(sig)
    /\ nsig < MaxSignals
    /\ nsig' = nsig + 1
    /\ \E e \in OpenOutcomes :
        /\ fdtab' = FdtabAfterOpen(TTY0, sigh[sig], e)
        /\ errno' = ErrnoAfter(e)
        /\ hstack' = Append(hstack, [sig |-> sig, kind |-> sigh[sig],
                                     hpc |-> "ioctl", fd |-> OpenResult(e),
                                     arg |-> -1, ackfd |-> -1])
    /\ UNCHANGED <<active, vtmode, vtsig, kdmode, sigh, jvars, fvars, hvars,
                   cvars, rvars>>

DeliverSignal == \E sig \in Signals : Deliver(sig)

\* the value each handler passes to VT_RELDISP: lines 42 and 48
AckValue(kind) == IF kind = "onReleaseDisplay" THEN 1 ELSE VT_ACKACQ

\* lines 42 and 48: ioctl(fd, VT_RELDISP, value).  The switch the acknowledgment
\* lets the kernel finish shows in the model when VT_WAITACTIVE succeeds.
HandlerAck ==
    /\ hstack # <<>> /\ Top.hpc = "ioctl"
    /\ \E e \in IoctlOutcomes(Top.fd) :
        /\ errno' = ErrnoAfter(e)
        /\ hstack' = SetTop([Top EXCEPT !.arg = AckValue(Top.kind), !.ackfd = Top.fd,
                                        !.hpc = "close"])
    /\ UNCHANGED <<kvars, sigh, nsig, jvars, fvars, hvars, cvars, rvars>>

\* lines 43 and 49: close(fd), and the handler returns
HandlerClose ==
    /\ hstack # <<>> /\ Top.hpc = "close"
    /\ fdtab' = FdtabAfterClose(Top.fd)
    /\ errno' = ErrnoAfter(CloseErrno(Top.fd))
    /\ dblClose' = (dblClose \/ (Top.fd >= 0 /\ ~IsOpen(Top.fd)))
    /\ hstack' = Pop
    /\ UNCHANGED <<active, vtmode, vtsig, kdmode, sigh, nsig, jvars, fvars, hvars,
                   cvars, trace, calls, lastSw, nintr>>

\* ------------------------------------------------- fixVtMode called on its own
\* fixVtMode(fd, vt_auto) on an open master handle, then again on the same
\* handle: calls in succession, with nothing in between.
InitRepair ==
    /\ KernelInit
    /\ fdtab = [f \in Fds |-> IF f = FirstFd THEN [vt |-> active, owner |-> "main"]
                              ELSE NoFile]
    /\ ProcessInit
    /\ vt = 0 /\ vt_auto \in BOOLEAN
    /\ activeVtFd = -1 /\ vtFd = -1 /\ fd = FirstFd
    /\ fixfd = FirstFd /\ getmodeReply = 0 /\ kernelDisplayMode = 0
    /\ modeFixed = FALSE /\ ok = TRUE
    /\ hvsfd = -1 /\ hvsok = TRUE /\ hvsCaller = "none"
    /\ retval = 0 /\ ncall = 1
    /\ trace = <<Entry("fixVtMode", FirstFd, IF vt_auto THEN 1 ELSE 0, 0)>>
    /\ calls = {} /\ lastSw = NoSw /\ nintr = 0
    /\ dblClose = FALSE
    /\ pc = "fix_getmode" /\ op = "fixVtMode"

RepairAgain ==
    /\ MainRuns /\ pc = "r_ret" /\ ncall < MaxCalls
    /\ ncall' = ncall + 1
    /\ Record(<<FixCall(fd)>>)
    /\ EnterFix(fd)
    /\ UNCHANGED <<kvars, pvars, jvars, hvars, op, retval, lastSw, nintr, dblClose>>

NextRepair ==
    \/ FixGetMode \/ FixKdGetMode \/ FixKdSetMode \/ FixOut
    \/ HvsSetMode \/ HvsSignalRelease \/ HvsSignalAcquire
    \/ RepairAgain

SpecRepair == InitRepair /\ [][NextRepair]_vars

\* ------------------------------------------------------------------- Next
Next ==
    \/ CallFetchAvailableVt \/ FetchOpen \/ FetchGetState \/ FetchOpenQry
    \/ GuardClose
    \/ CallSetUpNewVt \/ SetUpOpen \/ SetUpOpenQry \/ SetUpGetState
    \/ CallJumpToVt \/ JumpOpenMaster \/ JumpOpenTarget \/ JumpClear
    \/ JumpSetGraphics \/ JumpHandshake
    \/ FixGetMode \/ FixKdGetMode \/ FixKdSetMode \/ FixOut
    \/ HvsSetMode \/ HvsSignalRelease \/ HvsSignalAcquire
    \/ JumpClearErrno \/ JumpActivate \/ JumpActivateFailed
    \/ JumpWaitActive \/ JumpWaitFailed \/ JumpWhile
    \/ JumpCloseMaster \/ JumpCloseTarget
    \/ DeliverSignal \/ HandlerAck \/ HandlerClose

Spec == Init /\ [][Next]_vars

\* the two discovery operations alone, with the signal handlers
NextDiscovery ==
    \/ CallFetchAvailableVt \/ FetchOpen \/ FetchGetState \/ FetchOpenQry
    \/ GuardClose
    \/ CallSetUpNewVt \/ SetUpOpen \/ SetUpOpenQry \/ SetUpGetState
    \/ DeliverSignal \/ HandlerAck \/ HandlerClose

SpecDiscovery == Init /\ [][NextDiscovery]_vars

\* ================================================================ properties
\* reading the record of the main flow
Has(seq, c) == \E i \in 1..Len(seq) : seq[i].c = c
Count(seq, c) == Cardinality({i \in 1..Len(seq) : seq[i].c = c})
\* a query of kind c in seq succeeded and reported val
Reported(seq, c, val) ==
    \E i \in 1..Len(seq) : seq[i].c = c /\ seq[i].e = 0 /\ seq[i].a = val
ReportedOther(seq, c, val) ==
    \E i \in 1..Len(seq) : seq[i].c = c /\ seq[i].e = 0 /\ seq[i].a # val
Issued(c, f, a) == [c |-> c, fd |-> f, a |-> a] \in calls
Logged(msg) == Call3(Log(msg)) \in calls
Activated == \E c \in calls : c.c = "VT_ACTIVATE"
JumpReturned == InJump /\ Returned
HandlerNames == {"onReleaseDisplay", "onAcquireDisplay"}

\* the calls of fixVtMode in the record, and the part of the record of the k-th
Marks == {i \in 1..Len(trace) : trace[i].c = "fixVtMode"}
MarkAt(k) == CHOOSE i \in Marks : Cardinality({j \in Marks : j <= i}) = k
CallSeg(k) ==
    SubSeq(trace, MarkAt(k),
           IF k < Cardinality(Marks) THEN MarkAt(k + 1) - 1 ELSE Len(trace))
CallDone(k) == k < Cardinality(Marks) \/ pc = "r_ret"
IssuesNoSet(seq) ==
    ~Has(seq, "KDSETMODE") /\ ~Has(seq, "VT_SETMODE") /\ ~Has(seq, "signal")

\* C1: in jumpToVt(vt, vt_auto = false), whenever a VT_ACTIVATE call is about
\* to be issued or has been issued, the handshake installation is complete:
\* VT_SETMODE with VT_PROCESS was issued on the switching handle, both
\* signal() registrations were made and both handlers are registered; and
\* when no VT_SETMODE failed, the VT of the switching handle is in PROCESS
\* mode with the release and acquire signal numbers at the activate call.
HandshakeBeforeActivate ==
    (InJump /\ ~vt_auto /\ (pc = "j_activate" \/ Activated)) =>
        /\ Issued("VT_SETMODE", fd, VT_PROCESS)
        /\ Issued("signal", -1, RELEASE_DISPLAY_SIGNAL)
        /\ Issued("signal", -1, ACQUIRE_DISPLAY_SIGNAL)
        /\ sigh = Registered
        /\ (pc = "j_activate" /\ ~Logged("Failed to manage VT manually")) =>
                IsOpen(fd) /\ Armed(VtOf(fd))

\* a switch with vt_auto = false that was interrupted, went through and left
\* the target VT in the foreground, in PROCESS mode with the two signals
HandshakeBeforeActivateWitness ==
    /\ JumpReturned /\ ~vt_auto /\ Activated
    /\ nintr > 0 /\ active = vt /\ Armed(vt)
    /\ Issued("VT_SETMODE", fd, VT_PROCESS)

\* C2: once fetchAvailableVt has opened the master device, it issues
\* VT_OPENQRY if and only if VT_GETSTATE failed: after a successful query it
\* returns the active VT and makes no allocation call; after a failed query
\* it makes the allocation call and returns the allocated id, or -1 when that
\* call fails too.
FetchAllocatesIffQueryFailed ==
    (op = "fetchAvailableVt" /\ Len(trace) >= 2) =>
        LET q == trace[2] IN
        /\ trace[1].c = "open" /\ trace[1].e = 0
        /\ q.c = "VT_GETSTATE" /\ q.fd = trace[1].fd
        /\ Has(trace, "VT_OPENQRY") => q.e # 0
        /\ Returned =>
            IF q.e = 0
            THEN retval = q.a /\ ~Has(trace, "VT_OPENQRY")
            ELSE /\ trace[3].c = "VT_OPENQRY" /\ trace[3].fd = trace[1].fd
                 /\ retval = IF trace[3].e = 0 THEN trace[3].a ELSE -1

\* the query failed, the allocation yielded a VT, and that VT was returned
FetchAllocatesWitness ==
    /\ op = "fetchAvailableVt" /\ Returned /\ Len(trace) >= 3
    /\ trace[2].c = "VT_GETSTATE" /\ trace[2].e # 0
    /\ trace[3].c = "VT_OPENQRY" /\ trace[3].e = 0 /\ trace[3].a > 0
    /\ retval = trace[3].a

\* C3: setUpNewVt, once the master device is open: when VT_OPENQRY fails it
\* returns -1; when VT_OPENQRY yields a positive id it returns that id
\* without querying the active VT; when VT_OPENQRY succeeds with a
\* non-positive id it queries the active VT and returns it, or -1 when that
\* query fails.
SetUpFallsBackToActive ==
    (op = "setUpNewVt" /\ Returned /\ trace[1].e = 0) =>
        LET a == trace[2] IN
        /\ a.c = "VT_OPENQRY" /\ a.fd = trace[1].fd
        /\ a.e # 0 => retval = -1 /\ ~Has(trace, "VT_GETSTATE")
        /\ (a.e = 0 /\ a.a > 0) => retval = a.a /\ ~Has(trace, "VT_GETSTATE")
        /\ (a.e = 0 /\ a.a <= 0) =>
            /\ trace[3].c = "VT_GETSTATE" /\ trace[3].fd = trace[1].fd
            /\ retval = IF trace[3].e = 0 THEN trace[3].a ELSE -1

\* the allocation yielded 0, and the active VT was queried and returned
SetUpFallsBackWitness ==
    /\ op = "setUpNewVt" /\ Returned /\ Len(trace) >= 3
    /\ trace[2].c = "VT_OPENQRY" /\ trace[2].e = 0 /\ trace[2].a = 0
    /\ trace[3].c = "VT_GETSTATE" /\ trace[3].e = 0
    /\ retval = active

\* C4: the retry law of jumpToVt: a VT_ACTIVATE or VT_WAITACTIVE call that
\* ended with EINTR is followed by another round with the same target, so
\* the loop is never left while the last such call ended with EINTR; and a
\* failure is reported only for a call that failed with something other
\* than EINTR, which is then the last call of the loop.  The code does not
\* keep this law: a signal handler that runs between the return of the call
\* and the tests of errno (lines 218, 225, 228) and has a call of its own
\* fail replaces EINTR in errno.
RetryLaw ==
    InJump =>
        /\ lastSw.c # "none" => lastSw.a = vt /\ lastSw.fd = fd
        /\ lastSw.e = EINTR =>
                pc \notin {"j_close_master", "j_close_target", "idle"}
        /\ Logged("Couldn't initiate jump") =>
                lastSw.c = "VT_ACTIVATE" /\ lastSw.e \notin {0, EINTR}
        /\ Logged("Couldn't finalize jump") =>
                lastSw.c = "VT_WAITACTIVE" /\ lastSw.e \notin {0, EINTR}

\* C5: every descriptor an operation opened is closed when it returns, none
\* is closed twice, the discovery operations close theirs exactly once, and a
\* descriptor opened by a signal handler is open only while that handler
\* runs.
HandleHygiene ==
    /\ ~dblClose
    /\ pc = "idle" => \A f \in Fds : fdtab[f].owner # "main"
    /\ \A f \in Fds : fdtab[f].owner \in HandlerNames =>
            \E i \in 1..Len(hstack) :
                hstack[i].fd = f /\ hstack[i].kind = fdtab[f].owner
    /\ (Returned /\ op \in {"fetchAvailableVt", "setUpNewVt"}) =>
            Cardinality({i \in 1..Len(trace) :
                trace[i].c = "close" /\ trace[i].e = 0
                /\ trace[i].fd = trace[1].fd}) = (IF trace[1].e = 0 THEN 1 ELSE 0)

\* a switch that opened both devices, was interrupted, during which a signal
\* handler ran, and that has returned
HandleHygieneWitness ==
    /\ JumpReturned /\ activeVtFd # -1 /\ vtFd # -1
    /\ nintr > 0 /\ nsig > 0 /\ hstack = <<>>
    /\ Issued("close", activeVtFd, 0) /\ Issued("close", vtFd, 0)

\* C6: when a call of fixVtMode found VT_AUTO with KD_GRAPHICS and its set
\* call succeeded, the call made right after it on the same handle issues no
\* set call (no KDSETMODE, no VT_SETMODE, no handler registration).  The
\* code does not keep this: when the VT_GETMODE of the second call fails, the
\* zeroed reply reads as VT_AUTO, the display is still KD_GRAPHICS after a
\* handshake install, and with vt_auto = false the handshake is installed
\* again.
RepairIdempotent ==
    \A k \in 1..Cardinality(Marks) :
        (k > 1 /\ CallSeg(k)[1].fd = CallSeg(k - 1)[1].fd
         /\ Reported(CallSeg(k - 1), "VT_GETMODE", VT_AUTO)
         /\ Reported(CallSeg(k - 1), "KDGETMODE", KD_GRAPHICS)
         /\ \E i \in 1..Len(CallSeg(k - 1)) :
                CallSeg(k - 1)[i].c \in {"KDSETMODE", "VT_SETMODE"}
                /\ CallSeg(k - 1)[i].e = 0)
        => IssuesNoSet(CallSeg(k))

\* C7: a call of fixVtMode whose VT_GETMODE reports VT_AUTO and whose
\* KDGETMODE reports KD_GRAPHICS applies one strategy: with vt_auto = true
\* one KDSETMODE to KD_TEXT on the handle and no handshake; with
\* vt_auto = false one VT_SETMODE to VT_PROCESS on the same handle, carrying
\* the release and acquire signals, with both handlers registered, and no
\* KDSETMODE.  A call whose VT_GETMODE reports another mode than VT_AUTO, or
\* whose KDGETMODE reports KD_TEXT, issues no set call.  (What a query
\* reports is the reply of a query that succeeded.)
RepairStrategy ==
    \A k \in 1..Cardinality(Marks) :
        LET seg == CallSeg(k)
            f == seg[1].fd
            gone == seg[1].a = 1
        IN
        /\ (CallDone(k) /\ Reported(seg, "VT_GETMODE", VT_AUTO)
            /\ Reported(seg, "KDGETMODE", KD_GRAPHICS)) =>
            IF gone
            THEN /\ Count(seg, "KDSETMODE") = 1
                 /\ \E i \in 1..Len(seg) :
                        seg[i].c = "KDSETMODE" /\ seg[i].fd = f /\ seg[i].a = KD_TEXT
                 /\ ~Has(seg, "VT_SETMODE") /\ ~Has(seg, "signal")
            ELSE /\ Count(seg, "VT_SETMODE") = 1
                 /\ \E i \in 1..Len(seg) :
                        /\ seg[i].c = "VT_SETMODE" /\ seg[i].fd = f
                        /\ seg[i].a = VT_PROCESS
                        /\ seg[i].e = 0 => Armed(VtOf(f))
                 /\ \E i \in 1..Len(seg) :
                        seg[i].c = "signal" /\ seg[i].a = RELEASE_DISPLAY_SIGNAL
                 /\ \E i \in 1..Len(seg) :
                        seg[i].c = "signal" /\ seg[i].a = ACQUIRE_DISPLAY_SIGNAL
                 /\ sigh = Registered
                 /\ ~Has(seg, "KDSETMODE")
        /\ (ReportedOther(seg, "VT_GETMODE", VT_AUTO)
            \/ Reported(seg, "KDGETMODE", KD_TEXT)) => IssuesNoSet(seg)

\* a first call with vt_auto = false found VT_AUTO with KD_GRAPHICS and put
\* the VT in PROCESS mode
RepairStrategyWitness ==
    /\ op = "fixVtMode" /\ pc = "r_ret" /\ ncall = 1 /\ ~vt_auto
    /\ Reported(trace, "VT_GETMODE", VT_AUTO)
    /\ Reported(trace, "KDGETMODE", KD_GRAPHICS)
    /\ Reported(trace, "VT_SETMODE", VT_PROCESS)
    /\ Armed(active) /\ kdmode[active] = KD_GRAPHICS

\* C8: when the master device opened, jumpToVt does not leave its loop, and
\* does not return, without having issued VT_ACTIVATE for the target on the
\* switching handle, whichever of the target open, the clear write, the
\* KDSETMODE to graphics, the calls of fixVtMode and the VT_SETMODE of the
\* handshake failed.
BestEffortSwitch ==
    (InJump /\ activeVtFd # -1
     /\ pc \in {"j_close_master", "j_close_target", "idle"}) =>
        Issued("VT_ACTIVATE", fd, vt)

\* the target opened, the KDSETMODE to graphics, fixVtMode and the handshake
\* VT_SETMODE all failed, and the switch was still asked for and returned
BestEffortSwitchWitness ==
    /\ JumpReturned /\ activeVtFd # -1 /\ vtFd # -1
    /\ Logged("Failed to set graphics mode")
    /\ Logged("Failed to set up VT mode")
    /\ Logged("Failed to manage VT manually")
    /\ Issued("VT_ACTIVATE", fd, vt)

\* C9: when jumpToVt could not open the master device, it issues no
\* fixVtMode, no mode query or set, no VT_ACTIVATE and no VT_WAITACTIVE on
\* the descriptor -1 that the open returned.  The code does not keep this:
\* the result of the open at line 182 is never tested.
MasterOpenFailureIsHard ==
    (InJump /\ pc # "j_open_master" /\ activeVtFd = -1) =>
        \A c \in calls : c.fd = -1 =>
            c.c \notin {"fixVtMode", "VT_GETMODE", "KDGETMODE", "KDSETMODE",
                        "VT_SETMODE", "VT_ACTIVATE", "VT_WAITACTIVE"}

\* C10: a handler that has run for a signal is the one registered for it by
\* lines 65-66, and its VT_RELDISP call carried 1 for the release signal
\* and VT_ACKACQ for the acquire signal, on a master handle the handler had
\* just opened and still holds; and each signal is registered, if at all,
\* with its own handler.  The code does not keep this: the handlers never
\* test the result of their open (lines 41, 47), and issue the
\* acknowledgment on -1 when it failed.
AckOnFreshHandle ==
    /\ \A s \in Signals : sigh[s] \in {"SIG_DFL", Registered[s]}
    /\ \A i \in 1..Len(hstack) :
        LET fr == hstack[i] IN
        /\ fr.kind = Registered[fr.sig]
        /\ fr.hpc = "close" =>
            /\ fr.arg = (IF fr.sig = RELEASE_DISPLAY_SIGNAL THEN 1 ELSE VT_ACKACQ)
            /\ fr.ackfd = fr.fd
            /\ IsOpen(fr.ackfd) /\ fdtab[fr.ackfd].owner = fr.kind

\* what the k-th call of fixVtMode reported at lines 107-116
ReportOf(k) == CallSeg(k)[Len(CallSeg(k))].c
QueryFailedIn(seq, c) == \E i \in 1..Len(seq) : seq[i].c = c /\ seq[i].e # 0

\* C11: a call of fixVtMode whose VT_GETMODE fails, or whose KDGETMODE
\* fails, performs no repair action (no KDSETMODE, no VT_SETMODE, no handler
\* registration) and reports "Failed to set up VT mode", never that the mode
\* was fixed or needed no fix.  The code does not keep this: after a failed
\* query it goes on with the zeroed reply, which reads as VT_AUTO (line 82)
\* or KD_TEXT (line 90), and line 104 overwrites the failure it had noted.
QueryFailureEndsRepair ==
    \A k \in 1..Cardinality(Marks) :
        (QueryFailedIn(CallSeg(k), "VT_GETMODE")
         \/ QueryFailedIn(CallSeg(k), "KDGETMODE")) =>
            /\ IssuesNoSet(CallSeg(k))
            /\ CallDone(k) => ReportOf(k) = "Failed to set up VT mode"

\* C12: in every jumpToVt, fixVtMode has been called on the master handle
\* with the caller's vt_auto whenever VT_ACTIVATE is about to be or has been
\* issued.  The code does not keep this: the call of line 201 is inside the
\* branch taken when the target device opened.
RepairBeforeActivate ==
    (InJump /\ (pc = "j_activate" \/ Activated)) =>
        Issued("fixVtMode", activeVtFd, IF vt_auto THEN 1 ELSE 0)

\* C13: in jumpToVt, VT_WAITACTIVE is about to be issued only when the call
\* before it was a VT_ACTIVATE that succeeded; and once a VT_ACTIVATE has
\* failed with something other than EINTR, the loop is over: neither a wait
\* nor another activate follows it.
WaitOnlyAfterActivate ==
    InJump =>
        /\ pc = "j_wait" => lastSw.c = "VT_ACTIVATE" /\ lastSw.e = 0
        /\ (lastSw.c = "VT_ACTIVATE" /\ lastSw.e \notin {0, EINTR}) =>
                pc \in {"j_act_chk", "j_close_master", "j_close_target", "idle"}

\* an interrupted wait was followed by a second activate, which failed, and
\* the switch returned without another wait
WaitOnlyAfterActivateWitness ==
    /\ JumpReturned /\ nintr > 0
    /\ \E c \in calls : c.c = "VT_WAITACTIVE"
    /\ lastSw.c = "VT_ACTIVATE" /\ lastSw.e \notin {0, EINTR}
    /\ Logged("Couldn't initiate jump")

\* C14: no step of jumpToVt(vt, vt_auto = true) changes the mode or the
\* signals of any VT or the registration of a signal handler, and none
\* issues VT_SETMODE or signal(): the handshake is installed nowhere in it.
NoHandshakeWhenGone ==
    [][(InJump /\ vt_auto) =>
            /\ sigh' = sigh /\ vtmode' = vtmode /\ vtsig' = vtsig
            /\ \A c \in calls' \ calls : c.c \notin {"VT_SETMODE", "signal"}]_vars

\* a switch with vt_auto = true that repaired VT_AUTO with KD_GRAPHICS by
\* KDSETMODE(KD_TEXT), went through, and left no handler registered
NoHandshakeWhenGoneWitness ==
    /\ JumpReturned /\ vt_auto /\ Activated /\ active = vt
    /\ Issued("KDSETMODE", activeVtFd, KD_TEXT)
    /\ \A s \in Signals : sigh[s] = "SIG_DFL"
    /\ \A v \in Vts : vtmode[v] = VT_AUTO

\* C15: once jumpToVt has tried to open the target device: when that open
\* failed, the switching handle is the master handle, every VT_SETMODE,
\* VT_ACTIVATE and VT_WAITACTIVE is issued on it, and no clear write and no
\* KDSETMODE is issued; when it succeeded, the clear write and
\* KDSETMODE(KD_GRAPHICS) were issued on the target handle before fixVtMode
\* is called, every VT_ACTIVATE and VT_WAITACTIVE is issued on the target
\* handle, and so is the VT_SETMODE of the handshake.
TargetOpenFallback ==
    (InJump /\ pc \notin {"j_open_master", "j_open_target"}) =>
        IF vtFd = -1
        THEN /\ fd = activeVtFd
             /\ \A c \in calls :
                    /\ c.c \in {"VT_SETMODE", "VT_ACTIVATE", "VT_WAITACTIVE"} =>
                            c.fd = activeVtFd
                    /\ c.c \notin {"write", "KDSETMODE"}
        ELSE /\ fd = vtFd
             /\ (pc \notin {"j_write", "j_kdset"}) =>
                    Issued("write", vtFd, 0) /\ Issued("KDSETMODE", vtFd, KD_GRAPHICS)
             /\ (\E c \in calls : c.c = "fixVtMode") =>
                    Issued("write", vtFd, 0) /\ Issued("KDSETMODE", vtFd, KD_GRAPHICS)
             /\ \A c \in calls :
                    c.c \in {"VT_ACTIVATE", "VT_WAITACTIVE"} => c.fd = vtFd
             /\ (~vt_auto /\ (pc = "j_activate" \/ Activated)) =>
                    Issued("VT_SETMODE", vtFd, VT_PROCESS)

\* the target did not open, and handshake, activate and wait went to the
\* master handle
TargetOpenFallbackWitness ==
    /\ JumpReturned /\ activeVtFd # -1 /\ vtFd = -1 /\ ~vt_auto
    /\ Logged("Using /dev/tty0 instead")
    /\ Issued("VT_SETMODE", activeVtFd, VT_PROCESS)
    /\ Issued("VT_ACTIVATE", activeVtFd, vt)
    /\ Issued("VT_WAITACTIVE", activeVtFd, vt)

\* C16: where the loop of jumpToVt decides from errno (lines 218, 225, 228)
\* and no handler is running, errno says EINTR exactly when the last
\* VT_ACTIVATE or VT_WAITACTIVE call ended with EINTR, whatever handlers ran
\* since that call returned: the decision is the one taken had no handler
\* run.  The code does not keep this: the handlers' open, ioctl and close
\* write errno when they fail, and the handlers do not save and restore it.
HandlerTransparency ==
    (InJump /\ MainRuns /\ pc \in {"j_act_chk", "j_wait_chk", "j_while"}) =>
        ((errno = EINTR) <=> (lastSw.e = EINTR))

\* The start states, up to the naming of the VTs and to what no operation
\* reads: the foreground VT is VT 1; the display mode of a VT that is not in
\* the foreground at the start is KD_TEXT (the operations read a display
\* mode only through the master handle, line 85); and in a process that has
\* its handlers registered every VT in PROCESS mode carries its signals (a
\* VT in PROCESS mode with other signals raises none here, as in a process
\* without handlers).
InitLive ==
    /\ Init
    /\ active = 1
    /\ \A v \in Vts \ {active} : kdmode[v] = KD_TEXT
    /\ sigh = Registered => \A v \in Vts : vtmode[v] = VT_PROCESS => Armed(v)

\* the main flow and the running handler keep taking their next step: the
\* process is scheduled, and every kernel call of the model returns
SpecLive == InitLive /\ [][Next]_vars /\ WF_vars(Next)

\* the kernel calls an operation has made, from its record
KernelCalls == {i \in 1..Len(trace) : trace[i].fd # -1 \/ trace[i].c = "open"}

\* C17: fetchAvailableVt and setUpNewVt make at most four kernel calls
\* (open, two ioctls, close), and every operation that is called returns,
\* jumpToVt with its handles closed, when the kernel gives EINTR only
\* finitely often (at most MaxIntr times) and every call returns.
Termination ==
    /\ [](op \in {"fetchAvailableVt", "setUpNewVt"} => Cardinality(KernelCalls) <= 4)
    /\ <>(/\ Returned /\ hstack = <<>>
          /\ \A f \in Fds : fdtab[f].owner = "none")

\* a switch that was interrupted as often as the kernel interrupts, during
\* which a handler ran, and that returned with every handle closed
TerminationWitness ==
    /\ JumpReturned /\ nintr = MaxIntr /\ nsig > 0 /\ hstack = <<>>
    /\ \E c \in calls : c.c = "VT_WAITACTIVE"
    /\ \A f \in Fds : fdtab[f].owner = "none"

\* C18: whenever a VT is in PROCESS mode with the release and acquire
\* signals of this process, handlers for both signals are registered.  The
\* code does not keep this: handleVtSwitches issues VT_SETMODE (line 60)
\* before it registers the handlers (lines 65, 66).
NoUnhandledSignalWindow ==
    (\E v \in Vts : Armed(v)) => \A s \in Signals : sigh[s] # "SIG_DFL"

\* C19: fetchAvailableVt and setUpNewVt return a strictly positive VT id or
\* -1.  The code does not keep this: fetchAvailableVt returns the id that
\* VT_OPENQRY yielded without testing it (line 140).
DiscoveryReturnsValidId ==
    (Returned /\ op \in {"fetchAvailableVt", "setUpNewVt"}) =>
        retval > 0 \/ retval = -1

\* C20: in jumpToVt, when the target device opened and no call so far has
\* failed (errno, which only a failing call writes, is still 0) the display
\* mode of the target VT is KD_GRAPHICS when the first VT_ACTIVATE is about
\* to be issued.  The code does not keep this: when the target is the
\* foreground VT, in VT_AUTO mode, and vt_auto is true, fixVtMode finds
\* VT_AUTO with the KD_GRAPHICS that line 194 has just set and sets KD_TEXT.
RepairKeepsGraphics ==
    (InJump /\ pc = "j_errno" /\ nintr = 0 /\ ~Activated
     /\ activeVtFd # -1 /\ vtFd # -1 /\ errno = 0 /\ nsig = 0) =>
        kdmode[vt] = KD_GRAPHICS
====
